---- MODULE Spec2Model ----
(***************************************************************************)
(* Resumable, checkpointed summarization pipeline of mediaToText:          *)
(*   src/src/progress_manager.py  TaskProgress, ProgressManager            *)
(*   src/src/summarize.py         AIModelClient, PodcastSummarizer         *)
(*                                                                         *)
(* Spec       summarize_transcript driven by a caller over one transcript, *)
(*            with process kills between steps and resumption from disk.   *)
(* SpecFault  Spec plus a kill that lands inside save_task's write.        *)
(* SpecClient AIModelClient.call_api, one step per attempt.                *)
(* SpecSeg    TextSegmenter.segment_by_topic, one step per paragraph.      *)
(* SpecReport the runs of Spec, without kills, plus a caller that reports   *)
(*            segments to the task itself.                                 *)
(* SpecSaveFail Spec plus a progress directory that stops taking writes.   *)
(* SpecClock  Spec plus the passing of days.                               *)
(* SpecStore  the task store: create, run steps, load, delete, list,       *)
(*            retention sweep, and deep_analysis, over several tasks.      *)
(* SpecRequest call_api for either endpoint shape.                         *)
(***************************************************************************)
EXTENDS Integers, Sequences, FiniteSets, TLC

\* ------------------------------------------------------------------ bounds
MaxSeg == 3          \* segment counts of the transcript range over 0..MaxSeg
MaxTasks == 2        \* task ids that create_new_task may allocate
MaxAttempts == 4     \* retry.max_attempts ranges over 1..MaxAttempts
MaxDelay == 5        \* retry.delay_seconds ranges over 1..MaxDelay
MaxLines == 3        \* lines of the text given to segment_by_topic: 0..MaxLines
MaxParLen == 2       \* characters of a line after strip(): 0..MaxParLen
MaxRuns == 2         \* calls of segment_by_topic on one TextSegmenter
BigLength == 100     \* a max_length that no buffer of the bounded texts reaches
MaxClock == 1        \* days that pass in a run of the task store
KeepDays == {0, 1}   \* keep_days of the retention sweeps
SegCounts == {1}  \* segment counts of the transcripts of the task store

\* ------------------------------------------------------------- state
VARIABLES
  cfg,          \* configuration and transcript: nseg, include_keywords, include_topics
  task,         \* the TaskProgress object held in memory (task_id 0: none)
  disk,         \* progress directory: task_id -> file
  tid,          \* id of the task the caller works on (0: none yet)
  pc,           \* position inside summarize_transcript, "idle" or "killed"
  remaining,    \* remaining_segments of the running invocation (indices)
  li,           \* position of the for loop in remaining (1-based)
  cur,          \* summary/keywords obtained for the segment being processed
  result,       \* value returned by the last invocation
  outcome,      \* how the last invocation ended: none, returned, raised,
                \* rejected (raised by the entry checks)
                \* (reported: the caller reported to the task since)
  \* Record of the running invocation, kept until the next one unless it
  \* ends by a kill or an exception:
  entry,        \* the task at the entry of the invocation (AtEntry)
  seg_calls,    \* calls of _summarize_segment: index, ok
  synth_calls,  \* calls of _generate_overall_summary
  topic_calls,  \* calls of _analyze_topics
  succeeded,    \* indices loaded as completed or whose summary call returned, per process
  safe,         \* at the last kill: succeeded minus the segment in flight;
                \* kept until the invocation after the kill ends
  client,       \* state of one AIModelClient.call_api call
  segmenter,    \* state of one TextSegmenter and of its segment_by_topic calls
  now,          \* the clock read by datetime.now()
  fs_ok,        \* the progress directory accepts writes
  api,          \* the last call made to the task store or the summarizer
                \* from outside summarize_transcript, and what it returned
  alone         \* per task id, the file its own operations would have left

orch == <<cfg, task, disk, tid, pc, remaining, li, cur, result, outcome>>
hist == <<entry, seg_calls, synth_calls, topic_calls, succeeded, safe>>
env == <<now, fs_ok, api, alone>>
vars == <<orch, hist, client, segmenter, env>>

\* ------------------------------------------------------------- helpers
Range(s) == {s[k] : k \in 1..Len(s)}

Indices(segs) == [k \in 1..Len(segs) |-> segs[k].index]

IdxSet(segs) == {segs[k].index : k \in 1..Len(segs)}

\* ------------------------------------------------ TaskProgress (in memory)
NoTask ==
  [task_id |-> 0, media_title |-> "None", model_key |-> "None",
   created_at |-> 0, updated_at |-> 0,
   total_segments |-> 0, completed_segments |-> <<>>,
   failed_segments |-> <<>>, overall_summary |-> "None", topics |-> "None",
   status |-> "none", error_info |-> "None"]

\* TaskProgress.__init__, lines 14-26, for the title and the model of the run.
TaskProgress(id) ==
  [task_id |-> id, media_title |-> "title", model_key |-> "model",
   created_at |-> now, updated_at |-> now,
   total_segments |-> 0, completed_segments |-> <<>>,
   failed_segments |-> <<>>, overall_summary |-> "None", topics |-> "None",
   status |-> "initialized", error_info |-> "None"]

is_segment_completed(t, i) ==
  \E k \in 1..Len(t.completed_segments) : t.completed_segments[k].index = i

\* add_completed_segment without the check of is_segment_completed.
add_completed_segment_unchecked(t, seg) ==
  [t EXCEPT !.completed_segments = Append(@, seg), !.updated_at = now]

add_completed_segment(t, seg) ==
  IF ~is_segment_completed(t, seg.index)
  THEN [t EXCEPT !.completed_segments = Append(@, seg), !.updated_at = now]
  ELSE [t EXCEPT !.updated_at = now]

\* add_failed_segment that forgets to record the index.
add_failed_segment_dropped(t, i) == t

add_failed_segment(t, i) ==
  IF ~(\E k \in 1..Len(t.failed_segments) : t.failed_segments[k].index = i)
  THEN [t EXCEPT !.failed_segments = Append(@, [index |-> i, error |-> "error"]),
                 !.updated_at = now]
  ELSE [t EXCEPT !.updated_at = now]

\* What is recorded of the task passed to summarize_transcript: its fields,
\* with the two lists as sets of indices.
AtEntry(t) ==
  [task_id |-> t.task_id, total_segments |-> t.total_segments,
   completed |-> IdxSet(t.completed_segments),
   failed |-> IdxSet(t.failed_segments),
   overall_summary |-> t.overall_summary, topics |-> t.topics,
   status |-> t.status, error_info |-> t.error_info]

\* ------------------------------------------------ ProgressManager (on disk)
auto_save == TRUE

NoFile == [file |-> "missing", data |-> NoTask]

CorruptFile == [file |-> "truncated", data |-> NoTask]

\* to_dict that writes an unset topics as the empty list.
to_dict_topics_defaulted(t) ==
  [task_id |-> t.task_id, media_title |-> t.media_title,
   model_key |-> t.model_key, created_at |-> t.created_at,
   updated_at |-> t.updated_at, total_segments |-> t.total_segments,
   completed_segments |-> t.completed_segments,
   failed_segments |-> t.failed_segments,
   overall_summary |-> t.overall_summary,
   topics |-> IF t.topics = "None" THEN "empty" ELSE t.topics,
   status |-> t.status, error_info |-> t.error_info]

\* lines 28-43: the dictionary that json.dump writes.
to_dict(t) ==
  [task_id |-> t.task_id, media_title |-> t.media_title,
   model_key |-> t.model_key, created_at |-> t.created_at,
   updated_at |-> t.updated_at, total_segments |-> t.total_segments,
   completed_segments |-> t.completed_segments,
   failed_segments |-> t.failed_segments,
   overall_summary |-> t.overall_summary, topics |-> t.topics,
   status |-> t.status, error_info |-> t.error_info]

\* dict.get(key, default)
dict_get(data, key, default) == IF key \in DOMAIN data THEN data[key] ELSE default

\* lines 45-58: the three constructor arguments are required (a KeyError
\* makes load_task return None), the other keys have defaults.
from_dict(data) ==
  IF ~({"task_id", "media_title", "model_key"} \subseteq DOMAIN data) THEN NoTask
  ELSE [task_id |-> data["task_id"], media_title |-> data["media_title"],
        model_key |-> data["model_key"],
        created_at |-> dict_get(data, "created_at", now),
        updated_at |-> dict_get(data, "updated_at", now),
        total_segments |-> dict_get(data, "total_segments", 0),
        completed_segments |-> dict_get(data, "completed_segments", <<>>),
        failed_segments |-> dict_get(data, "failed_segments", <<>>),
        overall_summary |-> dict_get(data, "overall_summary", "None"),
        topics |-> dict_get(data, "topics", "None"),
        status |-> dict_get(data, "status", "initialized"),
        error_info |-> dict_get(data, "error_info", "None")]

\* One file for every task id.
get_task_file_path_shared(task_id) == 1

\* lines 112-114: <progress_dir>/<task_id>.json; the files of the directory
\* are numbered as the task ids.
get_task_file_path(task_id) == task_id

\* lines 116-128: nothing is written when auto_save is off; a write that
\* raises is reported with st.error and answered with False, which no caller
\* in summarize.py reads.
save_task(d, t) ==
  IF ~auto_save THEN d
  ELSE IF ~fs_ok THEN d
  ELSE [d EXCEPT ![get_task_file_path(t.task_id)] =
                    [file |-> "json", data |-> to_dict(t)]]

\* lines 130-142: None (NoTask) for a missing or unreadable file.
load_task(d, id) ==
  LET f == d[get_task_file_path(id)]
  IN IF f.file = "json" THEN from_dict(f.data) ELSE NoTask

\* get_next_segments_to_process that also skips the segments recorded as
\* failed.
get_next_segments_skip_failed(t, segments) ==
  SelectSeq(segments, LAMBDA i : /\ ~is_segment_completed(t, i)
                                 /\ i \notin IdxSet(t.failed_segments))

\* get_next_segments_to_process giving the segments last to first.
get_next_segments_reversed(t, segments) ==
  LET kept == SelectSeq(segments, LAMBDA i : ~is_segment_completed(t, i))
  IN [k \in 1..Len(kept) |-> kept[Len(kept) + 1 - k]]

\* get_next_segments_to_process without the skip of completed segments.
get_next_segments_no_skip(t, segments) == segments

get_next_segments_to_process(t, segments) ==
  SelectSeq(segments, LAMBDA i : ~is_segment_completed(t, i))

\* ------------------------------------------------ PodcastSummarizer
\* segment_by_topic on the transcript of this run: indices 1..nseg.
segment_by_topic == [k \in 1..cfg.nseg |-> k]

NoResult ==
  [is_partial |-> FALSE, segments |-> <<>>, overall_summary |-> "None",
   topics |-> "None", total_segments |-> 0, completed_segments_count |-> 0,
   failed_segments_count |-> 0, status |-> "none"]

_create_partial_result(t) ==
  [is_partial |-> TRUE,
   segments |-> t.completed_segments,
   overall_summary |-> IF t.overall_summary = "None" THEN "placeholder"
                       ELSE t.overall_summary,
   topics |-> IF t.topics = "None" THEN "empty" ELSE t.topics,
   total_segments |-> t.total_segments,
   completed_segments_count |-> Len(t.completed_segments),
   failed_segments_count |-> Len(t.failed_segments),
   status |-> t.status]

_create_final_result(t) ==
  [is_partial |-> FALSE,
   segments |-> t.completed_segments,
   overall_summary |-> t.overall_summary,
   topics |-> IF t.topics = "None" THEN "empty" ELSE t.topics,
   total_segments |-> t.total_segments,
   completed_segments_count |-> Len(t.completed_segments),
   failed_segments_count |-> Len(t.failed_segments),
   status |-> t.status]

\* The completion check counting failed segments as done.
all_segments_attempted(t, total_segments) ==
  Len(t.completed_segments) + Len(t.failed_segments) >= total_segments

\* The completion check satisfied by the first completed segment.
all_segments_some_completed(t, total_segments) ==
  Len(t.completed_segments) > 0 \/ total_segments = 0

\* line 397
all_segments_completed(t, total_segments) ==
  Len(t.completed_segments) = total_segments

\* The segmentation branch taken again for a task that failed.
segmentation_due_after_failure(t) == t.total_segments = 0 \/ t.status = "failed"

\* The segmentation branch taken on every invocation.
segmentation_due_always(t) == TRUE

\* line 334: segments are counted and the status set only for a task that
\* has no total_segments yet.
segmentation_due(t) == t.total_segments = 0

\* The synthesis guard without the check of overall_summary.
overall_pending_always(t) == TRUE

\* line 418
overall_pending(t) == t.overall_summary = "None"

\* The topic guard without the check of task.topics.
topics_pending_always(t) == cfg.include_topics

\* line 433
topics_pending(t) == t.topics = "None" /\ cfg.include_topics

\* The top-level handler without the assignment of error_info.
top_level_handler_no_info(t) == [t EXCEPT !.status = "failed"]

\* lines 457-458
top_level_handler(t) == [t EXCEPT !.error_info = "error", !.status = "failed"]

NoCur == [index |-> 0, keywords |-> "empty"]

\* ------------------------------------------------ AIModelClient
NoError == [kind |-> "None", attempt |-> 0]

\* A client that is not running a call (max_attempts 0: not configured).
IdleClient ==
  [pc |-> "unused", model_key |-> "None", max_attempts |-> 0, delay_seconds |-> 0,
   exponential_backoff |-> FALSE, attempt |-> 0, requests |-> 0,
   resps |-> <<>>, sleeps |-> <<>>, notices |-> <<>>,
   last_error |-> NoError, raised |-> "None",
   base_url |-> "None", system_prompt |-> "", messages |-> <<>>, sent |-> <<>>]

\* The base_url of a model: Anthropic's endpoint or another one.
BaseUrls == {"https://api.anthropic.com/v1", "https://api.openai.com/v1"}

\* A caller's message.
UserMessage(content) == [role |-> "user", content |-> content]

\* The client at the entry of call_api (line 52), for a retry configuration,
\* called with one user message and a system prompt.
AIModelClient(n, d, e) ==
  [pc |-> "calling", model_key |-> "configured", max_attempts |-> n, delay_seconds |-> d,
   exponential_backoff |-> e, attempt |-> 1, requests |-> 0,
   resps |-> <<>>, sleeps |-> <<>>, notices |-> <<>>,
   last_error |-> NoError, raised |-> "None",
   base_url |-> "https://api.openai.com/v1", system_prompt |-> "system",
   messages |-> <<UserMessage("text")>>, sent |-> <<>>]

\* lines 40-42: 'anthropic.com' in self.base_url
_is_anthropic_api(c) == c.base_url = "https://api.anthropic.com/v1"

\* The request of the second branch with the system message put last.
build_request_system_last(c) ==
  IF _is_anthropic_api(c)
  THEN [url |-> <<c.base_url, "/messages">>, auth |-> "x-api-key",
        system |-> IF c.system_prompt # "" THEN c.system_prompt ELSE "absent",
        messages |-> c.messages]
  ELSE [url |-> <<c.base_url, "/chat/completions">>, auth |-> "Authorization",
        system |-> "absent",
        messages |-> c.messages \o
                     (IF c.system_prompt # ""
                      THEN <<[role |-> "system", content |-> c.system_prompt]>>
                      ELSE <<>>)]

\* lines 56-93: url, authentication header and body ("absent": the body has
\* no system key) of the request of one attempt.
build_request(c) ==
  IF _is_anthropic_api(c)
  THEN [url |-> <<c.base_url, "/messages">>, auth |-> "x-api-key",
        system |-> IF c.system_prompt # "" THEN c.system_prompt ELSE "absent",
        messages |-> c.messages]
  ELSE [url |-> <<c.base_url, "/chat/completions">>, auth |-> "Authorization",
        system |-> "absent",
        messages |-> (IF c.system_prompt # ""
                      THEN <<[role |-> "system", content |-> c.system_prompt]>>
                      ELSE <<>>) \o c.messages]

\* _calculate_delay with the exponent off by one.
_calculate_delay_shifted(c, attempt) ==
  IF c.exponential_backoff
  THEN c.delay_seconds * (2 ^ attempt)
  ELSE c.delay_seconds

_calculate_delay(c, attempt) ==
  IF c.exponential_backoff
  THEN c.delay_seconds * (2 ^ (attempt - 1))
  ELSE c.delay_seconds

\* Status codes for which raise_for_status raises (line 96).
ErrorStatuses == {400, 401, 404, 429, 500, 503}

\* What requests.post / raise_for_status / response.json / the result lookup
\* of one attempt can produce (lines 95-104): an error status, or status 200
\* (0: no response at all) with the kind of outcome.
Responses ==
  [kind : {"http_error"}, status : ErrorStatuses]
    \cup [kind : {"timeout", "no_response"}, status : {0}]
    \cup [kind : {"ok", "bad_json", "missing_key", "empty_list", "wrong_type",
                  "wrong_leaf_type"}, status : {200}]

\* The status dispatch with every client error taken as retryable.
http_error_handler_all_retried(status_code) ==
  IF status_code = 429 THEN "rate_limit" ELSE "server_error"

\* lines 111-118: a RequestException that carries a response.
http_error_handler(status_code) ==
  IF status_code = 429 THEN "rate_limit"
  ELSE IF status_code >= 500 THEN "server_error"
  ELSE "raise_api_failed"

\* The except clause of lines 106-126 that receives the attempt's outcome:
\* the label put in last_error, "return" for a returned text, or the
\* exception raised at once.  response.json() raises a RequestException
\* without response in current requests and a ValueError in older ones.
\* A value of the wrong type inside the result is an error only where it is
\* indexed (TypeError); a content that is not a text is returned as it is.
Handlers(resp) ==
  CASE resp.kind = "ok"              -> {"return"}
    [] resp.kind = "wrong_leaf_type" -> {"return"}
    [] resp.kind = "timeout"         -> {"timeout"}
    [] resp.kind = "no_response"     -> {"network"}
    [] resp.kind = "http_error"      -> {http_error_handler(resp.status)}
    [] resp.kind = "missing_key"     -> {"raise_format_error"}
    [] resp.kind = "bad_json"        -> {"network", "unknown"}
    [] resp.kind = "empty_list"      -> {"unknown"}
    [] resp.kind = "wrong_type"      -> {"unknown"}

\* The retry tail with the bound of the loop off by one.
RetryOrGiveUp_one_more(c, label) ==
  LET c1 == [c EXCEPT !.last_error = [kind |-> label, attempt |-> c.attempt]]
  IN IF c.attempt <= c.max_attempts
     THEN [c1 EXCEPT
             !.notices = Append(@, [attempt |-> c.attempt,
                                    delay |-> _calculate_delay(c, c.attempt),
                                    reason |-> c1.last_error]),
             !.sleeps = Append(@, _calculate_delay(c, c.attempt)),
             !.attempt = c.attempt + 1]
     ELSE [c1 EXCEPT !.pc = "raised", !.raised = "aggregate"]

\* lines 128-135: after a failed attempt that was not raised at once.
RetryOrGiveUp(c, label) ==
  LET c1 == [c EXCEPT !.last_error = [kind |-> label, attempt |-> c.attempt]]
  IN IF c.attempt < c.max_attempts
     THEN [c1 EXCEPT
             !.notices = Append(@, [attempt |-> c.attempt,
                                    delay |-> _calculate_delay(c, c.attempt),
                                    reason |-> c1.last_error]),
             !.sleeps = Append(@, _calculate_delay(c, c.attempt)),
             !.attempt = c.attempt + 1]
     ELSE [c1 EXCEPT !.pc = "raised", !.raised = "aggregate"]

\* One iteration of the for loop of call_api (lines 54-132) and, after the
\* last one, line 135.
call_api_attempt(c, resp, h) ==
  LET c1 == [c EXCEPT !.requests = @ + 1, !.resps = Append(@, resp),
                      !.sent = Append(@, build_request(c))]
  IN CASE h = "return"             -> [c1 EXCEPT !.pc = "returned"]
       [] h = "raise_api_failed"   -> [c1 EXCEPT !.pc = "raised", !.raised = "api_failed"]
       [] h = "raise_format_error" -> [c1 EXCEPT !.pc = "raised", !.raised = "format_error"]
       [] OTHER                    -> RetryOrGiveUp(c1, h)

\* ------------------------------------------------ TextSegmenter
\* A text is a sequence of lines.  A line is known by its length after
\* strip() (0: blank), by whether _detect_topic_change matches it and by
\* whether it carries a [h:mm:ss] timestamp.  Strings are sequences of
\* characters: the characters of line k are all k, a newline is 0.
NoSegmenter ==
  [pc |-> "off", lines |-> <<>>, min_length |-> 0, max_length |-> 0,
   overlap_pct |-> 0, i |-> 0, segments |-> <<>>, current_segment |-> <<>>,
   current_length |-> 0, segment_start_time |-> 0, outs |-> <<>>]

\* TextSegmenter.__init__ with a text to segment; overlap_ratio is
\* overlap_pct / 100.
TextSegmenter(lines, min_length, max_length, overlap_pct) ==
  [NoSegmenter EXCEPT !.pc = "ready", !.lines = lines,
                      !.min_length = min_length, !.max_length = max_length,
                      !.overlap_pct = overlap_pct]

\* line 149: the stripped non-blank lines, in order.
RECURSIVE paragraphs_from(_, _)
paragraphs_from(lines, k) ==
  IF k > Len(lines) THEN <<>>
  ELSE (IF lines[k].len > 0
        THEN <<[id |-> k, len |-> lines[k].len, marker |-> lines[k].marker,
                ts |-> lines[k].ts]>>
        ELSE <<>>) \o paragraphs_from(lines, k + 1)

paragraphs(lines) == paragraphs_from(lines, 1)

\* The characters of a paragraph.
ParText(p) == [c \in 1..p.len |-> p.id]

\* str.strip() on a buffer: leading and trailing newlines go.
RECURSIVE lstrip(_)
lstrip(s) == IF s # <<>> /\ Head(s) = 0 THEN lstrip(Tail(s)) ELSE s

RECURSIVE rstrip(_)
rstrip(s) ==
  IF s # <<>> /\ s[Len(s)] = 0 THEN rstrip(SubSeq(s, 1, Len(s) - 1)) ELSE s

strip(s) == lstrip(rstrip(s))

\* s[-n:] of Python for 0 <= n <= len(s): the last n characters, and the
\* whole of s when n = 0.
overlap_tail(s, n) == IF n = 0 THEN s ELSE SubSeq(s, Len(s) - n + 1, Len(s))

\* line 191: int(len(current_segment) * self.overlap_ratio)
overlap_length(s, overlap_pct) == (Len(s) * overlap_pct) \div 100

\* lines 219-250, on the abstract paragraph.
_detect_topic_change(p) == p.marker

\* lines 158-160: the first timestamp seen since the segment began.
time_match(p, segment_start_time) ==
  IF p.ts /\ segment_start_time = 0 THEN p.id ELSE segment_start_time

\* lines 171-175
should_split(s, p, last) ==
  \/ s.current_length + p.len > s.max_length
  \/ (_detect_topic_change(p) /\ s.current_length >= s.min_length)
  \/ last

\* line 186: 'index': len(segments) + 1
next_index_zero_based(segments) == Len(segments)

next_index(segments) == Len(segments) + 1

\* lines 151-154: the locals of one call.
segment_locals_kept(s) == [s EXCEPT !.i = 1, !.segments = <<>>]

segment_locals(s) ==
  [s EXCEPT !.i = 1, !.segments = <<>>, !.current_segment = <<>>,
            !.current_length = 0, !.segment_start_time = 0]

\* lines 156-206: one iteration of the for loop, on paragraph s.i.
segment_loop_body(s) ==
  LET pars == paragraphs(s.lines)
      p == pars[s.i]
      last == s.i = Len(pars)
      start == time_match(p, s.segment_start_time)
      joined == s.current_segment \o <<0>> \o ParText(p)
      closed == IF last THEN s.current_segment ELSE joined
      new == [content |-> strip(closed), start_time |-> start,
              length |-> Len(closed), index |-> next_index(s.segments)]
      carried == overlap_tail(closed, overlap_length(closed, s.overlap_pct))
                   \o <<0>> \o ParText(p)
      s1 == [s EXCEPT !.i = @ + 1]
  IN IF should_split(s, p, last) /\ s.current_segment # <<>>
     THEN IF ~last
          THEN [s1 EXCEPT !.segments = Append(@, new),
                          !.current_segment = carried,
                          !.current_length = Len(carried),
                          !.segment_start_time = 0]
          ELSE [s1 EXCEPT !.segments =
                             Append(@, [new EXCEPT !.content = strip(joined),
                                                   !.length = Len(joined)]),
                          !.current_segment = joined,
                          !.segment_start_time = start]
     ELSE LET buf == IF s.current_segment # <<>> THEN joined ELSE ParText(p)
          IN [s1 EXCEPT !.current_segment = buf,
                        !.current_length = Len(buf),
                        !.segment_start_time = start]

\* lines 208-217: what is left when no split happened, and the return.
segment_return(s) ==
  LET segments ==
        IF s.current_segment # <<>> /\ s.segments = <<>>
        THEN <<[content |-> strip(s.current_segment),
                start_time |-> s.segment_start_time,
                length |-> Len(s.current_segment), index |-> 1]>>
        ELSE s.segments
  IN [s EXCEPT !.pc = "done", !.segments = segments,
               !.outs = Append(@, segments)]

\* ------------------------------------------------------------- Init
NoCall == [op |-> "none", id |-> 0, value |-> [none |-> TRUE], keep_days |-> 0]

\* Clock at 0, a writable directory, no call made yet; alone is kept for
\* the task store only.
InitEnv ==
  /\ now = 0
  /\ fs_ok = TRUE
  /\ api = NoCall
  /\ alone = <<>>

Init ==
  /\ InitEnv
  /\ cfg \in [nseg : 0..MaxSeg, include_keywords : BOOLEAN, include_topics : BOOLEAN]
  /\ task = NoTask
  /\ disk = [i \in 1..MaxTasks |-> NoFile]
  /\ tid = 0
  /\ pc = "idle"
  /\ remaining = <<>>
  /\ li = 1
  /\ cur = NoCur
  /\ result = NoResult
  /\ outcome = "none"
  /\ entry = AtEntry(NoTask)
  /\ seg_calls = <<>>
  /\ synth_calls = 0
  /\ topic_calls = 0
  /\ succeeded = {}
  /\ safe = {}
  /\ client = IdleClient
  /\ segmenter = NoSegmenter

\* ------------------------------------------------------------- actions
\* The model keys a caller may pass: one present in ai_models with an
\* api_key, one absent from ai_models, one present without api_key.
ModelKeys == {"configured", "unknown", "no_api_key"}

\* The entry checks that let a model through when its api_key is missing.
model_check_key_only(k) == IF k = "unknown" THEN "raise" ELSE "pass"

\* lines 317-323
model_check(k) == IF k \in {"unknown", "no_api_key"} THEN "raise" ELSE "pass"

\* summarize_transcript, lines 312-330: the entry checks raise, or the
\* client is built and the task is the one passed in or a new one from
\* create_new_task (saved at once).
Invoke(k) ==
  /\ pc = "idle"
  /\ seg_calls' = <<>>
  /\ synth_calls' = 0
  /\ topic_calls' = 0
  /\ result' = NoResult
  /\ remaining' = <<>>
  /\ li' = 1
  /\ cur' = NoCur
  /\ IF model_check(k) = "raise"
     THEN /\ outcome' = "rejected"
          /\ UNCHANGED <<tid, task, disk, succeeded, safe, client, pc>>
     ELSE /\ client' = [IdleClient EXCEPT !.model_key = k]
          /\ IF task.task_id = 0
             THEN /\ tid < MaxTasks
                  /\ tid' = tid + 1
                  /\ task' = TaskProgress(tid + 1)
                  /\ disk' = save_task(disk, TaskProgress(tid + 1))
                  /\ succeeded' = {}
                  /\ safe' = {}
             ELSE UNCHANGED <<tid, task, disk, succeeded, safe>>
          /\ outcome' = "none"
          /\ pc' = "segment"
  /\ entry' = IF model_check(k) = "raise" THEN AtEntry(NoTask) ELSE AtEntry(task')
  /\ UNCHANGED <<cfg, segmenter, env>>

\* lines 333-352: segmentation (recorded only when total_segments == 0) and
\* the remaining set.
SegmentPhase ==
  /\ pc = "segment"
  /\ LET segments == segment_by_topic
         t1 == IF segmentation_due(task)
               THEN [task EXCEPT !.total_segments = Len(segments),
                                 !.status = "segments_in_progress"]
               ELSE task
     IN /\ task' = t1
        /\ disk' = IF segmentation_due(task) THEN save_task(disk, t1) ELSE disk
        /\ remaining' = get_next_segments_to_process(t1, segments)
  /\ li' = 1
  /\ pc' = IF remaining' = <<>> THEN "gate" ELSE "seg_call"
  /\ UNCHANGED <<cfg, tid, cur, result, outcome, hist, client, segmenter, env>>

\* lines 355-361: _summarize_segment for remaining[li]; the client either
\* returns a summary or raises after its own retries.
SummarizeSegment(ok) ==
  /\ pc = "seg_call"
  /\ seg_calls' = Append(seg_calls, [index |-> remaining[li], ok |-> ok])
  /\ IF ok
     THEN /\ succeeded' = succeeded \cup {remaining[li]}
          /\ cur' = [index |-> remaining[li], keywords |-> "empty"]
          /\ pc' = IF cfg.include_keywords THEN "kw_call" ELSE "seg_save"
     ELSE /\ pc' = "seg_fail"
          /\ UNCHANGED <<succeeded, cur>>
  /\ UNCHANGED <<cfg, task, disk, tid, remaining, li, result, outcome,
                 entry, synth_calls, topic_calls, safe, client, segmenter, env>>

\* lines 362-369 with 518-535: the value of keywords after the keyword call,
\* which returns a list ("ok") or fails ("fail"); _extract_keywords answers
\* a failure of its call with [], and an exception coming out of it would
\* leave keywords = [] as well.  "raise" stands for an exception that leaves
\* the segment's try block.
keywords_after_call_unguarded(r) == IF r = "fail" THEN "raise" ELSE "list"

keywords_after_call(r) == IF r = "fail" THEN "empty" ELSE "list"

\* lines 364-369: the keyword call of the segment being processed.
ExtractKeywords(r) ==
  /\ pc = "kw_call"
  /\ IF keywords_after_call(r) = "raise"
     THEN /\ cur' = NoCur
          /\ pc' = "seg_fail"
     ELSE /\ cur' = [cur EXCEPT !.keywords = keywords_after_call(r)]
          /\ pc' = "seg_save"
  /\ UNCHANGED <<cfg, task, disk, tid, remaining, li, result, outcome, hist, client, segmenter, env>>

\* The for loop of line 354 moves to the next remaining segment or ends.
AfterSegment == IF li + 1 > Len(remaining) THEN "gate" ELSE "seg_call"

\* lines 371-385: add_completed_segment and the immediate checkpoint.
SaveSegment ==
  /\ pc = "seg_save"
  /\ task' = add_completed_segment(task, cur)
  /\ disk' = save_task(disk, task')
  /\ li' = li + 1
  /\ cur' = NoCur
  /\ pc' = AfterSegment
  /\ UNCHANGED <<cfg, tid, remaining, result, outcome, hist, client, segmenter, env>>

\* lines 387-394: the segment's failure is recorded and the loop goes on.
FailSegment ==
  /\ pc = "seg_fail"
  /\ task' = add_failed_segment(task, remaining[li])
  /\ disk' = save_task(disk, task')
  /\ li' = li + 1
  /\ pc' = AfterSegment
  /\ UNCHANGED <<cfg, tid, remaining, cur, result, outcome, hist, client, segmenter, env>>

\* lines 396-418: the completion gate.
CompletionGate ==
  /\ pc = "gate"
  /\ LET total_segments == Len(segment_by_topic)
     IN IF ~all_segments_completed(task, total_segments)
        THEN /\ task' = [task EXCEPT !.status =
                           IF Len(task.failed_segments) > 0
                           THEN "segments_in_progress" ELSE "segments_completed"]
             /\ disk' = save_task(disk, task')
             /\ pc' = "partial_return"
        ELSE /\ pc' = IF overall_pending(task) THEN "overall" ELSE "topics"
             /\ UNCHANGED <<task, disk>>
  /\ remaining' = <<>>
  /\ li' = 1
  /\ UNCHANGED <<cfg, tid, cur, result, outcome, hist, client, segmenter, env>>

\* lines 418-423: the synthesis call.
OverallCall(ok) ==
  /\ pc = "overall"
  /\ synth_calls' = synth_calls + 1
  /\ IF ok
     THEN /\ task' = [task EXCEPT !.overall_summary = "text"]
          /\ pc' = "overall_save"
     ELSE /\ pc' = "overall_fail"
          /\ UNCHANGED task
  /\ UNCHANGED <<cfg, disk, tid, remaining, li, cur, result, outcome,
                 entry, seg_calls, topic_calls, succeeded, safe, client, segmenter, env>>

\* line 424
OverallSave ==
  /\ pc = "overall_save"
  /\ disk' = save_task(disk, task)
  /\ pc' = "topics"
  /\ UNCHANGED <<cfg, task, tid, remaining, li, cur, result, outcome, hist, client, segmenter, env>>

\* lines 426-429
OverallFail ==
  /\ pc = "overall_fail"
  /\ task' = [task EXCEPT !.status = "segments_completed"]
  /\ disk' = save_task(disk, task')
  /\ pc' = "partial_return"
  /\ UNCHANGED <<cfg, tid, remaining, li, cur, result, outcome, hist, client, segmenter, env>>

\* lines 556-577 with 441-443: the value of task.topics after the topic
\* call, which returns a list ("ok") or fails ("fail").
_analyze_topics_unset(r) == IF r = "fail" THEN "None" ELSE "list"

_analyze_topics(r) == IF r = "fail" THEN "empty" ELSE "list"

\* lines 432-438: the topic phase, skipped when topics is set or disabled.
TopicsPhase(r) ==
  /\ pc = "topics"
  /\ IF topics_pending(task)
     THEN /\ topic_calls' = topic_calls + 1
          /\ task' = [task EXCEPT !.topics = _analyze_topics(r)]
          /\ pc' = "topics_save"
     ELSE /\ r = "ok"
          /\ pc' = "finalize"
          /\ UNCHANGED <<task, topic_calls>>
  /\ UNCHANGED <<cfg, disk, tid, remaining, li, cur, result, outcome,
                 entry, seg_calls, synth_calls, succeeded, safe, client, segmenter, env>>

\* line 439
TopicsSave ==
  /\ pc = "topics_save"
  /\ disk' = save_task(disk, task)
  /\ pc' = "finalize"
  /\ UNCHANGED <<cfg, task, tid, remaining, li, cur, result, outcome, hist, client, segmenter, env>>

\* lines 446-448
Finalize ==
  /\ pc = "finalize"
  /\ task' = [task EXCEPT !.status = "overall_completed"]
  /\ disk' = save_task(disk, task')
  /\ pc' = "final_return"
  /\ UNCHANGED <<cfg, tid, remaining, li, cur, result, outcome, hist, client, segmenter, env>>

\* lines 450-453
ReturnFinal ==
  /\ pc = "final_return"
  /\ result' = _create_final_result(task)
  /\ outcome' = "returned"
  /\ pc' = "idle"
  /\ safe' = {}
  /\ UNCHANGED <<cfg, task, disk, tid, remaining, li, cur, entry, seg_calls,
                 synth_calls, topic_calls, succeeded, client, segmenter, env>>

\* lines 415 and 430
ReturnPartial ==
  /\ pc = "partial_return"
  /\ result' = _create_partial_result(task)
  /\ outcome' = "returned"
  /\ pc' = "idle"
  /\ safe' = {}
  /\ UNCHANGED <<cfg, task, disk, tid, remaining, li, cur, entry, seg_calls,
                 synth_calls, topic_calls, succeeded, client, segmenter, env>>

\* Places of the outer try block that no inner handler covers: segmentation
\* (338), building a result (415, 430, 453), the include_topics lookup (433).
UnprotectedPcs == {"segment", "partial_return", "topics", "final_return"}

\* lines 455-460: the top-level handler.
UnhandledError ==
  /\ pc \in UnprotectedPcs
  /\ task' = top_level_handler(task)
  /\ disk' = save_task(disk, task')
  /\ outcome' = "raised"
  /\ pc' = "idle"
  /\ entry' = AtEntry(NoTask)
  /\ seg_calls' = <<>>
  /\ synth_calls' = 0
  /\ topic_calls' = 0
  /\ safe' = {}
  /\ remaining' = <<>>
  /\ li' = 1
  /\ cur' = NoCur
  /\ UNCHANGED <<cfg, tid, result, succeeded, client, segmenter, env>>

\* The segment whose summary call has returned and is not yet checkpointed.
InFlight == IF pc \in {"kw_call", "seg_save"} THEN {cur.index} ELSE {}

\* The calling process is terminated between two steps of a running
\* invocation: memory is lost, the progress directory stays.
Kill ==
  /\ pc \notin {"idle", "killed"}
  /\ safe' = succeeded \ InFlight
  /\ task' = NoTask
  /\ pc' = "killed"
  /\ result' = NoResult
  /\ outcome' = "none"
  /\ remaining' = <<>>
  /\ li' = 1
  /\ cur' = NoCur
  /\ entry' = AtEntry(NoTask)
  /\ seg_calls' = <<>>
  /\ synth_calls' = 0
  /\ topic_calls' = 0
  /\ succeeded' = {}
  /\ UNCHANGED <<cfg, disk, tid, client, segmenter, env>>

\* resume_task (load_task) in a new process.
ResumeTask ==
  /\ pc = "killed"
  /\ task' = load_task(disk, tid)
  /\ succeeded' = IdxSet(task'.completed_segments)
  /\ pc' = "idle"
  /\ UNCHANGED <<cfg, disk, tid, remaining, li, cur, result, outcome,
                 entry, seg_calls, synth_calls, topic_calls, safe, client, segmenter, env>>

\* Positions whose next step writes the task file.
SavePcs ==
  {"seg_save", "seg_fail", "overall_save", "overall_fail", "topics_save", "finalize"}
    \cup UnprotectedPcs
    \cup (IF task.total_segments = 0 THEN {"segment"} ELSE {})
    \cup (IF ~all_segments_completed(task, cfg.nseg) THEN {"gate"} ELSE {})

\* save_task, lines 123-124: open(file_path, 'w') truncates the file and
\* json.dump then writes it; a kill in between leaves a truncated file.
KillDuringSave ==
  /\ pc \in SavePcs
  /\ safe' = succeeded \ InFlight
  /\ disk' = [disk EXCEPT ![get_task_file_path(tid)] = CorruptFile]
  /\ task' = NoTask
  /\ pc' = "killed"
  /\ result' = NoResult
  /\ outcome' = "none"
  /\ remaining' = <<>>
  /\ li' = 1
  /\ cur' = NoCur
  /\ entry' = AtEntry(NoTask)
  /\ seg_calls' = <<>>
  /\ synth_calls' = 0
  /\ topic_calls' = 0
  /\ succeeded' = {}
  /\ UNCHANGED <<cfg, tid, client, segmenter, env>>

\* The steps of summarize_transcript and of its caller.
NextRun ==
  \/ \E k \in ModelKeys : Invoke(k)
  \/ SegmentPhase
  \/ \E ok \in BOOLEAN : SummarizeSegment(ok)
  \/ \E r \in {"ok", "fail"} : ExtractKeywords(r)
  \/ SaveSegment
  \/ FailSegment
  \/ CompletionGate
  \/ \E ok \in BOOLEAN : OverallCall(ok)
  \/ OverallSave
  \/ OverallFail
  \/ \E r \in {"ok", "fail"} : TopicsPhase(r)
  \/ TopicsSave
  \/ Finalize
  \/ ReturnFinal
  \/ ReturnPartial
  \/ UnhandledError

\* The run, kills of the process and resumption from the task file.
Next ==
  \/ NextRun
  \/ Kill
  \/ ResumeTask

Spec == Init /\ [][Next]_vars

NextFault == Next \/ KillDuringSave

SpecFault == Init /\ [][NextFault]_vars

\* The progress directory stops accepting writes while summarize_transcript
\* runs (disk full, permissions): from then on open(file_path, 'w') raises
\* inside save_task, lines 123-128.
WriteFailure ==
  /\ fs_ok
  /\ pc \notin {"idle", "killed"}
  /\ fs_ok' = FALSE
  /\ UNCHANGED <<orch, hist, client, segmenter, now, api, alone>>

NextSaveFail == Next \/ WriteFailure

SpecSaveFail == Init /\ [][NextSaveFail]_vars

\* ------------------------------------------------ direct reports to the task
\* A caller that holds the task between two invocations reports once more,
\* through TaskProgress.add_completed_segment, a segment that the task has
\* as completed, and saves the task (the calls of test_progress_manager.py).
\* outcome tells that the last thing the caller did was such a report; the
\* record of the last invocation is dropped.
ReportAgain(i, kw) ==
  /\ pc = "idle"
  /\ task.task_id # 0
  /\ is_segment_completed(task, i)
  /\ task' = add_completed_segment(task, [index |-> i, keywords |-> kw])
  /\ disk' = save_task(disk, task')
  /\ result' = NoResult
  /\ outcome' = "reported"
  /\ entry' = AtEntry(NoTask)
  /\ seg_calls' = <<>>
  /\ synth_calls' = 0
  /\ topic_calls' = 0
  /\ succeeded' = IdxSet(task'.completed_segments)
  /\ safe' = {}
  /\ UNCHANGED <<cfg, tid, pc, remaining, li, cur, client, segmenter, env>>

NextReport ==
  \/ NextRun
  \/ \E i \in 1..MaxSeg, kw \in {"list", "empty"} : ReportAgain(i, kw)

SpecReport == Init /\ [][NextReport]_vars

\* ------------------------------------------------ call_api on its own
InitClient ==
  /\ InitEnv
  /\ cfg = [nseg |-> 0, include_keywords |-> FALSE, include_topics |-> FALSE]
  /\ task = NoTask
  /\ disk = <<>>
  /\ tid = 0
  /\ pc = "idle"
  /\ remaining = <<>>
  /\ li = 1
  /\ cur = NoCur
  /\ result = NoResult
  /\ outcome = "none"
  /\ entry = AtEntry(NoTask)
  /\ seg_calls = <<>>
  /\ synth_calls = 0
  /\ topic_calls = 0
  /\ succeeded = {}
  /\ safe = {}
  /\ \E n \in 1..MaxAttempts, d \in 1..MaxDelay, e \in BOOLEAN :
        client = AIModelClient(n, d, e)
  /\ segmenter = NoSegmenter

\* An attempt whose response is returned as the generated text.
AttemptReturns ==
  /\ client.pc = "calling"
  /\ \E resp \in Responses :
       /\ "return" \in Handlers(resp)
       /\ client' = call_api_attempt(client, resp, "return")
  /\ UNCHANGED <<orch, hist, segmenter, env>>

\* An attempt that ends in an exception raised out of call_api at once.
AttemptRaises ==
  /\ client.pc = "calling"
  /\ \E resp \in Responses :
       \E h \in Handlers(resp) \cap {"raise_api_failed", "raise_format_error"} :
         client' = call_api_attempt(client, resp, h)
  /\ UNCHANGED <<orch, hist, segmenter, env>>

\* An attempt whose failure is kept in last_error.
AttemptFails ==
  /\ client.pc = "calling"
  /\ \E resp \in Responses :
       \E h \in Handlers(resp) \ {"return", "raise_api_failed", "raise_format_error"} :
         client' = call_api_attempt(client, resp, h)
  /\ UNCHANGED <<orch, hist, segmenter, env>>

NextClient == AttemptFails \/ AttemptRaises \/ AttemptReturns

SpecClient == InitClient /\ [][NextClient]_vars

\* call_api on a client of either endpoint, with or without a system
\* prompt, with one or two messages; the delays are those of SpecClient.
InitRequest ==
  /\ InitEnv
  /\ cfg = [nseg |-> 0, include_keywords |-> FALSE, include_topics |-> FALSE]
  /\ task = NoTask
  /\ disk = <<>>
  /\ tid = 0
  /\ pc = "idle"
  /\ remaining = <<>>
  /\ li = 1
  /\ cur = NoCur
  /\ result = NoResult
  /\ outcome = "none"
  /\ entry = AtEntry(NoTask)
  /\ seg_calls = <<>>
  /\ synth_calls = 0
  /\ topic_calls = 0
  /\ succeeded = {}
  /\ safe = {}
  /\ \E n \in 1..MaxAttempts, b \in BaseUrls, sp \in {"", "system"},
        ms \in {<<UserMessage("text")>>, <<UserMessage("text"), UserMessage("more")>>} :
        client = [AIModelClient(n, 1, FALSE) EXCEPT
                    !.base_url = b, !.system_prompt = sp, !.messages = ms]
  /\ segmenter = NoSegmenter

SpecRequest == InitRequest /\ [][NextClient]_vars

\* ------------------------------------------------ segment_by_topic on its own
\* Lines of a text, and the settings of the segmenter that reads it.
Lines ==
  {[len |-> 0, marker |-> FALSE, ts |-> FALSE]}
    \cup [len : 1..MaxParLen, marker : BOOLEAN, ts : BOOLEAN]

Texts == UNION {[1..n -> Lines] : n \in 0..MaxLines}

MinLengths == {1, MaxParLen + 1}

MaxLengths == {MaxParLen + 1, BigLength}

OverlapPcts == {0, 50}

InitSeg ==
  /\ InitEnv
  /\ cfg = [nseg |-> 0, include_keywords |-> FALSE, include_topics |-> FALSE]
  /\ task = NoTask
  /\ disk = <<>>
  /\ tid = 0
  /\ pc = "idle"
  /\ remaining = <<>>
  /\ li = 1
  /\ cur = NoCur
  /\ result = NoResult
  /\ outcome = "none"
  /\ entry = AtEntry(NoTask)
  /\ seg_calls = <<>>
  /\ synth_calls = 0
  /\ topic_calls = 0
  /\ succeeded = {}
  /\ safe = {}
  /\ client = IdleClient
  /\ \E lines \in Texts, mn \in MinLengths, mx \in MaxLengths, pct \in OverlapPcts :
        segmenter = TextSegmenter(lines, mn, mx, pct)

\* segment_by_topic is called: lines 149-154.
SegCall ==
  /\ segmenter.pc \in {"ready", "done"}
  /\ Len(segmenter.outs) < MaxRuns
  /\ segmenter' = [segment_locals(segmenter) EXCEPT !.pc = "loop"]
  /\ UNCHANGED <<orch, hist, client, env>>

\* One paragraph goes through the loop.
SegParagraph ==
  /\ segmenter.pc = "loop"
  /\ segmenter.i <= Len(paragraphs(segmenter.lines))
  /\ segmenter' = segment_loop_body(segmenter)
  /\ UNCHANGED <<orch, hist, client, env>>

\* The loop has ended: lines 208-217.
SegReturn ==
  /\ segmenter.pc = "loop"
  /\ segmenter.i > Len(paragraphs(segmenter.lines))
  /\ segmenter' = segment_return(segmenter)
  /\ UNCHANGED <<orch, hist, client, env>>

NextSeg == SegCall \/ SegParagraph \/ SegReturn

SpecSeg == InitSeg /\ [][NextSeg]_vars

\* ------------------------------------------------ the task store
\* The operations of ProgressManager and PodcastSummarizer that the
\* application calls on stored tasks, for up to MaxTasks tasks, with a clock.
\* A summarize step on a task is taken on the object that load_task returns
\* (resume_task, line 306) and ends with its save_task.

\* task_cleanup_enabled, line 102 (default True).
cleanup_enabled == TRUE

\* What the application called and what it got back.
Call(op, id, value, keep_days) ==
  [op |-> op, id |-> id, value |-> value, keep_days |-> keep_days]

\* The file that save_task writes for t.
FileOf(t) == [file |-> "json", data |-> to_dict(t)]

\* lines 167-176: the file is removed when it exists.
delete_task(d, task_id) ==
  IF d[get_task_file_path(task_id)].file # "missing"
  THEN [d EXCEPT ![get_task_file_path(task_id)] = NoFile]
  ELSE d

\* os.listdir(progress_dir), the names that end with .json (lines 149-150
\* and 189-190), as task ids (filename[:-5]).
listdir(d) == {p \in DOMAIN d : d[p].file # "missing"}

\* The orders in which os.listdir may return the names of S.
Orders(S) ==
  {o \in [1..Cardinality(S) -> S] : \A a, b \in 1..Cardinality(S) : o[a] = o[b] => a = b}

\* The sort of line 161 with the oldest task first.
sort_by_updated_at_ascending(s) ==
  LET place(i) == 1 + Cardinality({k \in 1..Len(s) : s[k].updated_at < s[i].updated_at})
                    + Cardinality({k \in 1..(i - 1) : s[k].updated_at = s[i].updated_at})
  IN [p \in 1..Len(s) |-> s[CHOOSE i \in 1..Len(s) : place(i) = p]]

\* line 161: list.sort(key=updated_at, reverse=True), a stable sort: the
\* element at i goes after those of a greater key and after the earlier
\* ones of an equal key.
sort_by_updated_at(s) ==
  LET place(i) == 1 + Cardinality({k \in 1..Len(s) : s[k].updated_at > s[i].updated_at})
                    + Cardinality({k \in 1..(i - 1) : s[k].updated_at = s[i].updated_at})
  IN [p \in 1..Len(s) |-> s[CHOOSE i \in 1..Len(s) : place(i) = p]]

\* lines 144-165, for the order in which listdir gave the files.
list_incomplete_tasks(d, order) ==
  LET loaded == [k \in 1..Len(order) |-> load_task(d, order[k])]
      kept == SelectSeq(loaded, LAMBDA t : t # NoTask /\ t.status \notin {"overall_completed"})
  IN sort_by_updated_at(kept)

\* The test of lines 197-198 without the status.
expired_any_status(t, keep_days) == t.updated_at < now - keep_days

\* lines 184 and 197-198: completed, and updated before the cutoff
\* now - timedelta(days=keep_days); the clock counts days.
expired(t, keep_days) ==
  t.status = "overall_completed" /\ t.updated_at < now - keep_days

\* lines 189-199: the files that the sweep deletes.
Expired(d, keep_days) ==
  {p \in listdir(d) : load_task(d, p) # NoTask /\ expired(load_task(d, p), keep_days)}

\* lines 178-204: the directory after the sweep.
cleanup_old_tasks(d, keep_days) ==
  IF ~cleanup_enabled THEN d
  ELSE [p \in DOMAIN d |->
          IF \E q \in Expired(d, keep_days) :
               get_task_file_path(load_task(d, q).task_id) = p
          THEN NoFile ELSE d[p]]

\* lines 181-182, 186 and 199-200: the number of tasks deleted.
cleanup_count(d, keep_days) ==
  IF ~cleanup_enabled THEN 0 ELSE Cardinality(Expired(d, keep_days))

\* The runs of summarize_transcript on a stored task, each ending with a
\* save: segmentation (334-341) or its failure (338, 455-458), one turn of
\* the loop (354-391), and the tail from the synthesis to the final status
\* (418-448) with a topic analysis that answers nothing.
StepKinds == {"segment", "error", "complete", "fail", "finish"}

\* The index of the segment that the loop of lines 354-391 handles next.
next_segment(t) == Len(t.completed_segments) + Len(t.failed_segments) + 1

step_enabled(t, kind) ==
  CASE kind \in {"segment", "error"} -> segmentation_due(t) /\ t.status = "initialized"
    [] kind \in {"complete", "fail"} ->
         t.status = "segments_in_progress" /\ next_segment(t) <= t.total_segments
    [] kind = "finish" ->
         /\ t.status = "segments_in_progress"
         /\ all_segments_completed(t, t.total_segments)

summarize_step(t, kind) ==
  CASE kind = "segment" ->
         [t EXCEPT !.total_segments = cfg.nseg, !.status = "segments_in_progress"]
    [] kind = "error" -> top_level_handler(t)
    [] kind = "complete" ->
         add_completed_segment(t, [index |-> next_segment(t), keywords |-> "empty"])
    [] kind = "fail" -> add_failed_segment(t, next_segment(t))
    [] kind = "finish" ->
         [t EXCEPT !.overall_summary = "text",
                   !.topics = IF topics_pending(t) THEN _analyze_topics("fail") ELSE @,
                   !.status = "overall_completed"]

\* deep_analysis that sends one request for each segment of the text.
deep_analysis_segmented(enabled, prompt_found, ok) ==
  [calls |-> IF enabled /\ prompt_found
             THEN [k \in 1..cfg.nseg |-> [content |-> <<"prompt", "segment">>]]
             ELSE <<>>,
   outcome |-> IF enabled /\ prompt_found /\ ok THEN "returned" ELSE "raised"]

\* lines 579-600: raises when the feature is disabled or the prompt file is
\* missing; otherwise one call_api whose message holds the prompt and the
\* whole text, and whose result or exception is passed on.
deep_analysis(enabled, prompt_found, ok) ==
  [calls |-> IF enabled /\ prompt_found
             THEN <<[content |-> <<"prompt", "text">>]>>
             ELSE <<>>,
   outcome |-> IF enabled /\ prompt_found /\ ok THEN "returned" ELSE "raised"]

InitStore ==
  /\ now = 0
  /\ fs_ok = TRUE
  /\ api = NoCall
  /\ alone = [i \in 1..MaxTasks |-> NoFile]
  /\ cfg \in [nseg : SegCounts, include_keywords : {FALSE}, include_topics : {TRUE}]
  /\ task = NoTask
  /\ disk = [i \in 1..MaxTasks |-> NoFile]
  /\ tid = 0
  /\ pc = "idle"
  /\ remaining = <<>>
  /\ li = 1
  /\ cur = NoCur
  /\ result = NoResult
  /\ outcome = "none"
  /\ entry = AtEntry(NoTask)
  /\ seg_calls = <<>>
  /\ synth_calls = 0
  /\ topic_calls = 0
  /\ succeeded = {}
  /\ safe = {}
  /\ client = IdleClient
  /\ segmenter = NoSegmenter

\* A day passes.
Tick ==
  /\ now < MaxClock
  /\ now' = now + 1
  /\ api' = NoCall
  /\ UNCHANGED <<orch, hist, client, segmenter, fs_ok, alone>>

\* create_new_task, lines 297-302.
Create ==
  /\ tid < MaxTasks
  /\ tid' = tid + 1
  /\ disk' = save_task(disk, TaskProgress(tid + 1))
  /\ api' = Call("create", tid + 1, [task |-> TaskProgress(tid + 1)], 0)
  /\ alone' = [alone EXCEPT ![tid + 1] = FileOf(TaskProgress(tid + 1))]
  /\ UNCHANGED <<cfg, task, pc, remaining, li, cur, result, outcome, hist,
                 client, segmenter, now, fs_ok>>

\* One step of summarize_transcript on the stored task id, with its save.
Step(id, kind) ==
  LET t == load_task(disk, id)
  IN /\ t # NoTask
     /\ step_enabled(t, kind)
     /\ disk' = save_task(disk, summarize_step(t, kind))
     /\ api' = Call("save", id, [task |-> summarize_step(t, kind)], 0)
     /\ alone' = [alone EXCEPT ![id] =
                    IF @.file = "json"
                    THEN FileOf(summarize_step(from_dict(@.data), kind))
                    ELSE @]
     /\ UNCHANGED <<cfg, task, tid, pc, remaining, li, cur, result, outcome, hist,
                    client, segmenter, now, fs_ok>>

\* load_task, lines 130-142.
Load(id) ==
  /\ api' = Call("load", id, [task |-> load_task(disk, id)], 0)
  /\ UNCHANGED <<orch, hist, client, segmenter, now, fs_ok, alone>>

\* delete_task, lines 167-176 (True when the file was there).
Delete(id) ==
  /\ disk' = delete_task(disk, id)
  /\ api' = Call("delete", id, [existed |-> disk[get_task_file_path(id)].file # "missing"], 0)
  /\ alone' = [alone EXCEPT ![id] = NoFile]
  /\ UNCHANGED <<cfg, task, tid, pc, remaining, li, cur, result, outcome, hist,
                 client, segmenter, now, fs_ok>>

\* list_incomplete_tasks, lines 144-165.
ListIncomplete ==
  /\ \E order \in Orders(listdir(disk)) :
        api' = Call("list", 0, [tasks |-> list_incomplete_tasks(disk, order)], 0)
  /\ UNCHANGED <<orch, hist, client, segmenter, now, fs_ok, alone>>

\* cleanup_old_tasks, lines 178-204, of a manager built with keep_days.
Cleanup(keep_days) ==
  /\ disk' = cleanup_old_tasks(disk, keep_days)
  /\ api' = Call("cleanup", 0, [count |-> cleanup_count(disk, keep_days)], keep_days)
  /\ alone' = [id \in DOMAIN alone |->
                 IF alone[id].file = "json" /\ expired(from_dict(alone[id].data), keep_days)
                 THEN NoFile ELSE alone[id]]
  /\ UNCHANGED <<cfg, task, tid, pc, remaining, li, cur, result, outcome, hist,
                 client, segmenter, now, fs_ok>>

\* deep_analysis, lines 579-600.
DeepAnalysis(enabled, prompt_found, ok) ==
  /\ api' = Call("deep_analysis", 0, deep_analysis(enabled, prompt_found, ok), 0)
  /\ UNCHANGED <<orch, hist, client, segmenter, now, fs_ok, alone>>

\* deep_analysis is called with the feature disabled, with the prompt file
\* missing, with a call that fails and with one that answers.
DeepCases ==
  {<<FALSE, TRUE, TRUE>>, <<TRUE, FALSE, TRUE>>, <<TRUE, TRUE, FALSE>>, <<TRUE, TRUE, TRUE>>}

NextStore ==
  \/ Tick
  \/ Create
  \/ \E id \in 1..MaxTasks, kind \in StepKinds : Step(id, kind)
  \/ \E id \in 1..MaxTasks : Load(id)
  \/ \E id \in 1..MaxTasks : Delete(id)
  \/ ListIncomplete
  \/ \E keep_days \in KeepDays : Cleanup(keep_days)
  \/ \E c \in DeepCases : DeepAnalysis(c[1], c[2], c[3])

SpecStore == InitStore /\ [][NextStore]_vars

\* summarize_transcript while days pass.
NextClock == Next \/ Tick

SpecClock == Init /\ [][NextClock]_vars

\* ================================================================ claims
\* The for loop of the running (or just returned) invocation has ended.
LoopDone ==
  \/ pc \in {"gate", "overall", "overall_save", "overall_fail", "topics",
             "topics_save", "finalize", "final_return", "partial_return"}
  \/ pc = "idle" /\ outcome = "returned"

CalledIdx == {seg_calls[k].index : k \in 1..Len(seg_calls)}

\* Segment indices not completed when the invocation was entered.
Todo == (1..cfg.nseg) \ entry.completed

\* C1: the per-segment summary calls of an invocation are exactly those for
\* the indices not in completed_segments at entry (failed and never
\* attempted alike), each at most once, and none for a completed index.
C1_RemainingCalledOnce ==
  entry.task_id # 0 =>
    /\ \A k \in 1..Len(seg_calls) : seg_calls[k].index \in Todo
    /\ \A j, k \in 1..Len(seg_calls) :
         j # k => seg_calls[j].index # seg_calls[k].index
    /\ LoopDone => CalledIdx = Todo

\* An invocation entered with 1 completed, 2 failed and 3 never attempted
\* has called 2 and 3 and returned.
C1_Witness ==
  /\ pc = "idle" /\ outcome = "returned"
  /\ entry.completed = {1}
  /\ entry.failed = {2}
  /\ Len(seg_calls) = 2 /\ seg_calls[1].index = 2 /\ seg_calls[2].index = 3

\* C2: an invocation entered with overall_summary set issues no synthesis
\* call, whatever invocations came before it.
C2_NoSynthesisOnceSet ==
  entry.overall_summary # "None" => synth_calls = 0

\* A task whose last invocation ended in the top-level handler, entered
\* again with its overall_summary set and run to its return.
C2_Witness ==
  /\ pc = "idle" /\ outcome = "returned"
  /\ entry.overall_summary = "text"
  /\ entry.status = "failed"

\* C3: after a kill at any point, every segment whose summary call had
\* succeeded, except the one in flight, is in the completed_segments that
\* load_task returns, and is not called again.
C3_AtMostOneUnitLost ==
  /\ pc = "killed" =>
       safe \subseteq IdxSet(load_task(disk, tid).completed_segments)
  /\ \A k \in 1..Len(seg_calls) : seg_calls[k].index \notin safe

AllTimeouts == \A k \in 1..Len(client.resps) : client.resps[k].kind = "timeout"

\* C4: against a backend that times out on every attempt, call_api performs
\* exactly max_attempts requests and then raises the aggregate failure that
\* carries the error of the last attempt.
C4_RetryBound ==
  AllTimeouts =>
    /\ client.pc \in {"calling", "raised"}
    /\ client.pc = "calling" => client.requests < client.max_attempts
    /\ client.pc = "raised" =>
         /\ client.requests = client.max_attempts
         /\ client.raised = "aggregate"
         /\ client.last_error = [kind |-> "timeout", attempt |-> client.max_attempts]

C4_Witness ==
  /\ AllTimeouts
  /\ client.max_attempts = 3
  /\ client.pc = "raised"
  /\ client.requests = 3

IsClientError(resp) ==
  resp.kind = "http_error" /\ resp.status >= 400 /\ resp.status < 500
    /\ resp.status # 429

\* C5: an attempt answered by a 4xx status other than 429 is the last one:
\* call_api raises on it, with no sleep after it and no further request.
C5_ClientErrorNotRetried ==
  \A k \in 1..Len(client.resps) :
    IsClientError(client.resps[k]) =>
      /\ k = Len(client.resps)
      /\ client.requests = k
      /\ client.pc = "raised"
      /\ client.raised = "api_failed"
      /\ Len(client.sleeps) = k - 1
      /\ Len(client.notices) = k - 1

\* A 404 on the second of three attempts.
C5_Witness ==
  /\ client.max_attempts = 3
  /\ Len(client.resps) = 2
  /\ client.resps[1].kind = "timeout"
  /\ client.resps[2] = [kind |-> "http_error", status |-> 404]
  /\ client.pc = "raised"

Unparseable == {"bad_json", "missing_key", "empty_list", "wrong_type", "wrong_leaf_type"}

\* C6: an attempt whose 200 response cannot be parsed into the expected
\* shape (not JSON, key missing, empty list, wrong type) is the last one:
\* call_api raises on it without retrying.
C6_UnparseableNotRetried ==
  \A k \in 1..Len(client.resps) :
    client.resps[k].kind \in Unparseable =>
      /\ k = Len(client.resps)
      /\ client.requests = k
      /\ client.pc = "raised"
      /\ Len(client.sleeps) = k - 1

\* Number of attempts that ended in a failure kept in last_error.
FailedAttempts ==
  IF client.pc = "calling" \/ client.raised = "aggregate"
  THEN client.requests
  ELSE client.requests - 1

\* C7: the k-th sleep lasts delay_seconds doubled k-1 times when
\* exponential_backoff is set and delay_seconds otherwise (5, 10, 20 for
\* delay_seconds 5); each failed attempt k < max_attempts is followed by one
\* notice and one sleep of that delay, the last attempt by neither.
C7_BackoffShape ==
  /\ Len(client.sleeps) = Len(client.notices)
  /\ Len(client.sleeps) =
       (IF FailedAttempts < client.max_attempts THEN FailedAttempts
        ELSE client.max_attempts - 1)
  /\ \A k \in 1..Len(client.sleeps) :
       /\ client.notices[k].attempt = k
       /\ client.notices[k].delay = client.sleeps[k]
       /\ client.notices[k].reason.attempt = k
       /\ client.sleeps[k] =
            (IF k = 1 \/ ~client.exponential_backoff THEN client.delay_seconds
             ELSE 2 * client.sleeps[k - 1])
  /\ (client.delay_seconds = 5 /\ client.exponential_backoff) =>
       \A k \in 1..Len(client.sleeps) :
         k <= 3 => client.sleeps[k] = <<5, 10, 20>>[k]

\* Four attempts with delay_seconds 5: sleeps of 5, 10 and 20, none after
\* the fourth.
C7_Witness ==
  /\ client.max_attempts = 4
  /\ client.pc = "raised" /\ client.raised = "aggregate"
  /\ client.sleeps = <<5, 10, 20>>

FailedNow == {seg_calls[k].index : k \in {j \in 1..Len(seg_calls) : ~seg_calls[j].ok}}

\* C8: an invocation that returns with fewer completed segments than
\* total_segments returns is_partial = true, one entry per completed index
\* and none for a failed one, the placeholder as overall_summary, and has
\* issued no synthesis and no topic call.
C8_PartialResultShape ==
  (pc = "idle" /\ outcome = "returned"
     /\ Len(task.completed_segments) < task.total_segments) =>
    /\ result.is_partial
    /\ IdxSet(result.segments) = IdxSet(task.completed_segments)
    /\ Len(result.segments) = Cardinality(IdxSet(task.completed_segments))
    /\ IdxSet(result.segments) \cap FailedNow = {}
    /\ result.overall_summary = "placeholder"
    /\ synth_calls = 0
    /\ topic_calls = 0

\* Two of three segments completed, one failed.
C8_Witness ==
  /\ pc = "idle" /\ outcome = "returned"
  /\ task.total_segments = 3
  /\ Len(result.segments) = 2
  /\ Cardinality(FailedNow) = 1
  /\ result.is_partial

\* C9: the step that handles a failed segment call records the index in
\* failed_segments, persists the task, leaves status alone and moves the
\* loop on; a recorded failure is on disk, and every remaining segment after
\* a failed one is still called in the same invocation.
C9_SegmentFailureContinues ==
  /\ [][(pc = "seg_fail" /\ pc' # "killed") =>
          /\ remaining[li] \in IdxSet(task'.failed_segments)
          /\ disk'[tid] = [file |-> "json", data |-> task']
          /\ task'.status = task.status
          /\ pc' = (IF li < Len(remaining) THEN "seg_call" ELSE "gate")
          /\ (li < Len(remaining) => remaining'[li'] = remaining[li + 1])]_vars
  /\ [](\A k \in 1..Len(seg_calls) :
          ~seg_calls[k].ok =>
            /\ (k < Len(seg_calls) \/ pc # "seg_fail") =>
                 seg_calls[k].index \in IdxSet(disk[tid].data.failed_segments)
            /\ LoopDone =>
                 \A i \in Todo : i > seg_calls[k].index => i \in CalledIdx)

\* Segment 1 failed, is recorded on disk, and segment 2 was called after it.
C9_Witness ==
  /\ Len(seg_calls) >= 2
  /\ seg_calls[1] = [index |-> 1, ok |-> FALSE]
  /\ seg_calls[2].index = 2
  /\ 1 \in IdxSet(disk[tid].data.failed_segments)
  /\ task.status # "failed"

\* C10: the top-level handler records error_info, sets status to failed,
\* persists the task and raises, keeping completed_segments,
\* overall_summary and topics; an invocation entered in status failed calls
\* only the segments that are not completed, and skips the synthesis and the
\* topic call that are already done.
C10_TopLevelFailure ==
  /\ [][(outcome' = "raised" /\ outcome # "raised") =>
          /\ task'.error_info = "error"
          /\ task'.status = "failed"
          /\ disk'[tid] = [file |-> "json", data |-> task']
          /\ task'.completed_segments = task.completed_segments
          /\ task'.overall_summary = task.overall_summary
          /\ task'.topics = task.topics
          /\ task'.total_segments = task.total_segments
          /\ pc' = "idle"]_vars
  /\ [](entry.status = "failed" =>
          /\ \A k \in 1..Len(seg_calls) : seg_calls[k].index \notin entry.completed
          /\ LoopDone => CalledIdx = Todo
          /\ synth_calls > 0 =>
               /\ entry.overall_summary = "None"
               /\ Len(task.completed_segments) = cfg.nseg
          /\ topic_calls > 0 =>
               /\ entry.topics = "None"
               /\ task.overall_summary # "None")

\* A task that failed at the top level with two segments completed, was
\* entered again and returned the full result.
C10_Witness ==
  /\ pc = "idle" /\ outcome = "returned"
  /\ entry.status = "failed" /\ entry.error_info = "error"
  /\ Cardinality(entry.completed) = 2
  /\ entry.overall_summary = "None"
  /\ synth_calls = 1
  /\ ~result.is_partial

\* ------------------------------------------------ segmentation claims
\* The paragraphs of the text being segmented.
Pars == paragraphs(segmenter.lines)

\* Strings joined by newlines.
RECURSIVE JoinLines(_)
JoinLines(ss) ==
  IF ss = <<>> THEN <<>>
  ELSE IF Len(ss) = 1 THEN ss[1]
  ELSE ss[1] \o <<0>> \o JoinLines(Tail(ss))

\* The buffer a segment record was cut from: content has lost only the
\* newlines that the buffer began with.
BufferOf(sg) == [c \in 1..(sg.length - Len(sg.content)) |-> 0] \o sg.content

\* The overlap tail that segment k of out starts with (none for the first).
CarriedTail(out, k) ==
  IF k = 1 THEN <<>>
  ELSE LET prev == BufferOf(out[k - 1])
       IN overlap_tail(prev, overlap_length(prev, segmenter.overlap_pct))

\* Segment k of out without its overlap tail.
Discounted(out, k) ==
  LET buf == BufferOf(out[k])
      n == Len(CarriedTail(out, k))
  IN strip(SubSeq(buf, n + 1, Len(buf)))

Discounts(out) == [k \in 1..Len(out) |-> Discounted(out, k)]

\* The paragraphs grouped by a split before every marker paragraph but the
\* first paragraph of the text.
RECURSIVE MarkerGroups(_, _, _)
MarkerGroups(pars, k, acc) ==
  IF k > Len(pars) THEN acc
  ELSE IF acc = <<>> \/ pars[k].marker
       THEN MarkerGroups(pars, k + 1, Append(acc, ParText(pars[k])))
       ELSE MarkerGroups(pars, k + 1,
              [acc EXCEPT ![Len(acc)] = @ \o <<0>> \o ParText(pars[k])])

Returned == {segmenter.outs[r] : r \in 1..Len(segmenter.outs)}

\* C11: segment_by_topic is deterministic: every call on the same text with
\* the same settings returns the same segments (count, index, content,
\* start_time, length), whatever calls were made before it.
C11_Deterministic ==
  \A r1, r2 \in 1..Len(segmenter.outs) : segmenter.outs[r1] = segmenter.outs[r2]

\* A second call has returned a result of two segments or more, one of them
\* carrying a start time.
C11_Witness ==
  /\ Len(segmenter.outs) >= 2
  /\ Len(segmenter.outs[2]) >= 2
  /\ \E k \in 1..Len(segmenter.outs[2]) : segmenter.outs[2][k].start_time # 0

\* C12: once the overlap tail each later segment starts with is taken away,
\* the segment contents joined in order are the non-blank paragraphs of the
\* input in order: none lost, none repeated, none reordered.
C12_Coverage ==
  \A out \in Returned :
    JoinLines(Discounts(out)) = JoinLines([k \in 1..Len(Pars) |-> ParText(Pars[k])])

\* C13: with min_length reached by every non-empty buffer and max_length
\* never reached, the result splits before every marker paragraph, the last
\* one included: every marker paragraph opens its own segment and is not in
\* the one before.
C13_SplitBeforeMarker ==
  (segmenter.min_length = 1 /\ segmenter.max_length = BigLength)
    => \A out \in Returned : Discounts(out) = MarkerGroups(Pars, 1, <<>>)

\* C14: the segments returned carry the indices 1..n in order, and a text
\* without a non-blank line returns the empty sequence.
C14_IndicesInOrder ==
  \A out \in Returned :
    /\ \A k \in 1..Len(out) : out[k].index = k
    /\ Pars = <<>> => out = <<>>

\* A call has returned two segments.
C14_Witness ==
  \E out \in Returned : Len(out) = 2 /\ out[1].index = 1 /\ out[2].index = 2

\* ------------------------------------------------ task state claims
\* The task in memory and the tasks stored in the progress directory.
TaskStates == {task} \cup {disk[id].data : id \in 1..MaxTasks}

C16_NoIndexInBoth ==
  /\ \A t \in TaskStates :
       IdxSet(t.completed_segments) \cap IdxSet(t.failed_segments) = {}
  /\ (pc = "idle" /\ outcome = "returned") =>
       result.failed_segments_count =
         Cardinality(IdxSet(task.failed_segments) \ IdxSet(task.completed_segments))

\* C17: overall_summary is set, in memory or stored, only when every index
\* of 1..total_segments is completed, and the synthesis call is never
\* issued while a segment of the transcript is not completed.
C17_SynthesisOnlyWhenComplete ==
  /\ \A t \in TaskStates :
       t.overall_summary # "None" =>
         IdxSet(t.completed_segments) = 1..t.total_segments
  /\ (synth_calls > 0 \/ pc \in {"overall", "overall_save", "overall_fail"}) =>
       IdxSet(task.completed_segments) = 1..cfg.nseg

\* The synthesis was called once, for a transcript of two segments or more
\* of which one had failed before it completed.
C17_Witness ==
  /\ task.overall_summary = "text"
  /\ task.total_segments >= 2
  /\ task.failed_segments # <<>>
  /\ synth_calls = 1

\* A step of summarize_transcript that changes the status of the task.
StatusChange ==
  /\ task.task_id # 0
  /\ task'.task_id = task.task_id
  /\ task'.status # task.status

Statuses ==
  {"initialized", "segments_in_progress", "segments_completed",
   "overall_completed", "failed"}

\* The changes of status the state machine lists.
ListedChanges ==
  {<<"initialized", "segments_in_progress">>,
   <<"segments_in_progress", "segments_completed">>,
   <<"segments_completed", "overall_completed">>}
    \cup {<<x, "failed">> : x \in Statuses}
    \cup {<<"failed", y>> : y \in {"segments_in_progress", "segments_completed",
                                  "overall_completed"}}

\* C18 as stated: every change of status is initialized ->
\* segments_in_progress, segments_in_progress -> segments_completed,
\* segments_completed -> overall_completed, any -> failed, or failed -> the
\* status of the next incomplete phase.
C18_StatusMachine ==
  [][StatusChange => <<task.status, task'.status>> \in ListedChanges]_vars

\* C18 amended: the listed changes, and segments_in_progress ->
\* overall_completed when the invocation that completes the segments also
\* obtains the overall summary, and any status -> segments_in_progress at
\* the start of an invocation on a task whose total_segments is 0.
C18_StatusMachineAmended ==
  [][StatusChange =>
       \/ <<task.status, task'.status>> \in ListedChanges
       \/ <<task.status, task'.status>> = <<"segments_in_progress", "overall_completed">>
       \/ task.total_segments = 0 /\ pc = "segment"
            /\ task'.status = "segments_in_progress"]_vars

\* An invocation entered with a new task has set overall_completed; the
\* task had segments to summarize.
C18_Witness ==
  /\ pc = "final_return"
  /\ entry.status = "initialized"
  /\ task.status = "overall_completed"
  /\ task.total_segments >= 1

\* C19: when the topic call fails, topics is set to the empty list and
\* stored, the same invocation goes on to set and store overall_completed,
\* and an invocation entered with topics set issues no topic call.
C19_TopicFailureFinal ==
  /\ [](pc = "topics_save" => task.topics # "None")
  /\ [][(pc = "topics_save" /\ task.topics = "empty" /\ pc' # "killed") =>
          /\ pc' = "finalize"
          /\ task' = task
          /\ disk'[tid].data.topics = "empty"]_vars
  /\ [][(pc = "finalize" /\ pc' # "killed") =>
          /\ task'.status = "overall_completed"
          /\ task'.topics = task.topics
          /\ disk'[tid].data = task'
          /\ pc' = "final_return"]_vars
  /\ [](entry.topics # "None" => topic_calls = 0)

\* An invocation entered with the empty topics of a failed topic call has
\* returned the final result without a topic call.
C19_Witness ==
  /\ pc = "idle"
  /\ outcome = "returned"
  /\ cfg.include_topics
  /\ entry.topics = "empty"
  /\ topic_calls = 0
  /\ ~result.is_partial
  /\ task.status = "overall_completed"

\* C20: when the keyword call of a segment fails after its summary call
\* succeeded, the segment is recorded and stored in completed_segments with
\* empty keywords, and the failure adds nothing to failed_segments.
C20_KeywordFailureKeepsSegment ==
  /\ [][(pc = "kw_call" /\ pc' # "killed") =>
          /\ pc' = "seg_save"
          /\ cur'.index = cur.index]_vars
  /\ [][(pc = "seg_save" /\ cfg.include_keywords /\ cur.keywords = "empty"
           /\ pc' # "killed") =>
          /\ \E k \in 1..Len(task'.completed_segments) :
               task'.completed_segments[k] = [index |-> cur.index, keywords |-> "empty"]
          /\ task'.failed_segments = task.failed_segments
          /\ disk'[tid].data = task']_vars
  /\ [](\A k \in 1..Len(seg_calls) :
          (seg_calls[k].ok /\ seg_calls[k].index \notin entry.failed) =>
             seg_calls[k].index \notin IdxSet(task.failed_segments))

\* The loop has ended with a segment completed with empty keywords, though
\* keywords are enabled, and absent from failed_segments.
C20_Witness ==
  /\ pc = "gate"
  /\ cfg.include_keywords
  /\ \E k \in 1..Len(task.completed_segments) :
       /\ task.completed_segments[k].keywords = "empty"
       /\ task.completed_segments[k].index \notin IdxSet(task.failed_segments)
       /\ \E c \in 1..Len(seg_calls) :
            seg_calls[c].ok /\ seg_calls[c].index = task.completed_segments[k].index


\* C21: at every instant, a crash in the middle of a save included, the
\* load of a task that was saved before returns a full snapshot of that
\* task: never not-found, never an empty or partial record.
C21_AtomicSave ==
  \A id \in 1..tid : load_task(disk, id).task_id = id

\* C22: summarize_transcript does not return a result when a checkpoint
\* write failed: whenever it has returned, the persisted record of the task
\* is the record it worked on.
C22_WriteFailureSurfaced ==
  (pc = "idle" /\ outcome = "returned") => load_task(disk, task.task_id) = task

\* C23: summarize_transcript called with a model key that is not configured
\* or whose credential is missing raises at once: that step makes no
\* generation call, creates no task record and leaves the task passed in
\* and its file as they were (so the status is not set to failed); the
\* steps of summarize_transcript run only for a configured model.
C23_RejectedAtEntry ==
  /\ [][outcome' = "rejected" =>
          /\ task' = task /\ disk' = disk /\ tid' = tid
          /\ pc' = "idle" /\ result' = NoResult
          /\ seg_calls' = <<>> /\ synth_calls' = 0 /\ topic_calls' = 0]_vars
  /\ [](pc \notin {"idle", "killed"} => client.model_key = "configured")

\* A resumed task with a completed segment was passed with a bad model key:
\* it is still in progress, in memory and on file.
C23_Witness ==
  /\ outcome = "rejected"
  /\ task.status = "segments_in_progress"
  /\ Len(task.completed_segments) >= 1
  /\ load_task(disk, tid) = task

C25_ListIncomplete ==
  api.op = "list" =>
    LET v == api.value.tasks
    IN /\ \A a, b \in 1..Len(v) : v[a].task_id = v[b].task_id => a = b
       /\ {v[k].task_id : k \in 1..Len(v)} =
            {id \in 1..MaxTasks : /\ disk[id].file = "json"
                                  /\ disk[id].data.status # "overall_completed"}
       /\ \A k \in 1..Len(v) : v[k] = load_task(disk, v[k].task_id)
       /\ \A a, b \in 1..Len(v) : a < b => v[a].updated_at >= v[b].updated_at

\* Two tasks are listed, the one updated later first.
C25_Witness ==
  /\ api.op = "list"
  /\ Len(api.value.tasks) = 2
  /\ api.value.tasks[1].updated_at > api.value.tasks[2].updated_at

\* C26: a retention sweep with keep_days deletes exactly the stored tasks
\* whose status is overall_completed and whose updated_at is more than
\* keep_days old, returns their number, and leaves every other file as it
\* was.
C26_RetentionSweep ==
  [][api'.op = "cleanup" =>
       LET old == {id \in 1..MaxTasks :
                     /\ disk[id].file = "json"
                     /\ disk[id].data.status = "overall_completed"
                     /\ disk[id].data.updated_at < now - api'.keep_days}
       IN /\ \A id \in 1..MaxTasks :
               disk'[id] = IF id \in old THEN NoFile ELSE disk[id]
          /\ api'.value.count = Cardinality(old)]_vars

\* A sweep deleted one task and kept an unfinished one of the same age.
C26_Witness ==
  /\ api.op = "cleanup"
  /\ api.value.count = 1
  /\ \E id \in 1..MaxTasks :
        /\ disk[id].file = "json"
        /\ disk[id].data.status # "overall_completed"
        /\ disk[id].data.updated_at < now - api.keep_days

\* C27: whatever the interleaving of the operations on distinct task ids,
\* the file of each task is the one its own operations alone would have
\* left.
C27_Isolation ==
  \A id \in 1..MaxTasks : disk[id] = alone[id]

\* Task 1 was deleted after task 2 had been created and run to the end.
C27_Witness ==
  /\ api.op = "delete" /\ api.id = 1 /\ api.value.existed
  /\ disk[1] = NoFile
  /\ disk[2].file = "json"
  /\ disk[2].data.status = "overall_completed"

\* C29: deep_analysis makes at most one client call, exactly one when it
\* returns, and that call carries the template with the whole transcript;
\* whether it returns or raises, it creates, changes and deletes no task
\* record.
C29_DeepAnalysisStateless ==
  [][api'.op = "deep_analysis" =>
       /\ disk' = disk /\ tid' = tid /\ task' = task
       /\ Len(api'.value.calls) <= 1
       /\ api'.value.outcome = "returned" => Len(api'.value.calls) = 1
       /\ \A k \in 1..Len(api'.value.calls) :
             api'.value.calls[k].content = <<"prompt", "text">>]_vars

\* deep_analysis made its call, which failed, next to a stored task.
C29_Witness ==
  /\ api.op = "deep_analysis"
  /\ api.value.outcome = "raised"
  /\ Len(api.value.calls) = 1
  /\ listdir(disk) # {}

\* C28: every attempt of a call sends the same request, in the shape of
\* the endpoint: for Anthropic the system instruction is a top-level field
\* and the messages are the caller's; for the others the system instruction
\* is the first message, followed by the caller's messages, and there is no
\* top-level system field.
C28_RequestShape ==
  /\ Len(client.sent) = client.requests
  /\ \A k \in 1..Len(client.sent) :
       LET q == client.sent[k]
           sp == client.system_prompt
       IN /\ q = client.sent[1]
          /\ IF client.base_url = "https://api.anthropic.com/v1"
             THEN /\ q.messages = client.messages
                  /\ sp # "" => q.system = sp
             ELSE /\ q.system = "absent"
                  /\ sp # "" =>
                       /\ q.messages[1] = [role |-> "system", content |-> sp]
                       /\ Tail(q.messages) = client.messages
                  /\ sp = "" => q.messages = client.messages

\* Three attempts were sent to an OpenAI-style endpoint with a system
\* prompt and two messages.
C28_Witness ==
  /\ Len(client.sent) = 3
  /\ client.base_url = "https://api.openai.com/v1"
  /\ client.system_prompt = "system"
  /\ Len(client.messages) = 2

\* The fields of a task that summarize_transcript changes.
Mutable(t) ==
  <<t.total_segments, t.completed_segments, t.failed_segments,
    t.overall_summary, t.topics, t.status, t.error_info>>

\* C30: every step of summarize_transcript that changes total_segments,
\* completed_segments, failed_segments, overall_summary, topics, status or
\* error_info of the task sets its updated_at to the time of the step.
C30_UpdatedAtRefreshed ==
  [][(task.task_id # 0 /\ task'.task_id = task.task_id /\ Mutable(task') # Mutable(task))
       => task'.updated_at = now']_vars

\* C31: in every task state, in memory or stored, error_info is set only
\* when the status is failed.
C31_ErrorInfoOnlyWhenFailed ==
  \A t \in TaskStates : t.error_info # "None" => t.status = "failed"

\* A segment record closed by a split that was not at the last paragraph,
\* and the buffer the next segment begins with.
NonFinalSplit ==
  /\ segmenter.pc = "loop"
  /\ segmenter'.pc = "loop"
  /\ Len(segmenter'.segments) = Len(segmenter.segments) + 1
  /\ segmenter.i < Len(Pars)

\* The last n characters of s, none when n = 0.
LastChars(s, n) == SubSeq(s, Len(s) - n + 1, Len(s))

\* C34: on every split that is not at the last paragraph, the buffer of the
\* next segment is the last floor(overlap_ratio * L) characters of the
\* segment just closed, of length L (no character at all when that number
\* is 0), then a newline and the paragraph that opens the segment.
C34_OverlapTail ==
  [][NonFinalSplit =>
       LET closed == segmenter'.segments[Len(segmenter'.segments)]
           buf == BufferOf(closed)
           n == (closed.length * segmenter.overlap_pct) \div 100
       IN segmenter'.current_segment =
            LastChars(buf, n) \o <<0>> \o ParText(Pars[segmenter.i])]_vars

\* The timestamp (0: none) of the first paragraph of segment k of out, its
\* overlap tail apart.
FirstParagraphTime(out, k) ==
  LET d == Discounted(out, k)
  IN IF d # <<>> /\ segmenter.lines[d[1]].ts THEN d[1] ELSE 0

\* C35: the start_time of every returned segment is the timestamp of the
\* first paragraph of that segment, and is unset when that paragraph has
\* none.
C35_StartTimeOfFirstParagraph ==
  \A out \in Returned :
    \A k \in 1..Len(out) : out[k].start_time = FirstParagraphTime(out, k)

\* C38: when no paragraph is longer than max_length, the content of every
\* returned segment, its overlap tail apart, is at most max_length
\* characters long.
C38_BoundedLength ==
  (\A k \in 1..Len(Pars) : Pars[k].len <= segmenter.max_length)
    => \A out \in Returned :
         \A k \in 1..Len(out) : Len(Discounted(out, k)) <= segmenter.max_length

\* s is strictly ascending.
Ascending(s) == \A a, b \in 1..Len(s) : a < b => s[a] < s[b]

\* C40: the summaries given to the synthesis call and the segments of the
\* returned result are in ascending index order, and the number that the
\* synthesis input puts before each summary (its position) is its index.
C40_AscendingOrder ==
  /\ pc = "overall" =>
       \A k \in 1..Len(task.completed_segments) : task.completed_segments[k].index = k
  /\ Ascending(Indices(result.segments))

\* The segmentation step of an invocation that changes the task it was given.
SegmentationRecorded ==
  pc = "segment" /\ pc' \in {"seg_call", "gate"} /\ (task' # task \/ disk' # disk)

\* C32: total_segments is written only by an invocation that finds it 0:
\* the segmentation step changes nothing of a task whose total_segments is
\* not 0, no step changes a total_segments that is not 0, and past the
\* segmentation step the stored number is the number of segments that this
\* invocation computed from the text.
C32_TotalSegmentsWrittenOnce ==
  /\ [][/\ SegmentationRecorded => task.total_segments = 0
        /\ (task.total_segments # 0 /\ task'.task_id = task.task_id)
              => task'.total_segments = task.total_segments]_vars
  /\ [](pc \notin {"idle", "killed", "segment"}
          => task.total_segments = Len(segment_by_topic))

\* A resumed invocation has re-segmented the text of a task that was
\* segmented by an earlier invocation.
C32_Witness ==
  /\ pc = "seg_call"
  /\ entry.total_segments >= 2
  /\ entry.status \in {"failed", "segments_completed"}
  /\ task.total_segments = entry.total_segments

\* An invocation that was given a task finished by an earlier one.
Reinvoked == entry.status = "overall_completed" /\ entry.total_segments >= 1

\* C33: an invocation on a task that is overall_completed (total_segments
\* >= 1) makes no segment, synthesis or topic call, changes no field of the
\* task and nothing of its file, and returns a result that is not partial
\* and is the final result of the unchanged task.
C33_ReinvokeIdempotent ==
  /\ [][(Reinvoked /\ entry' = entry) => (task' = task /\ disk' = disk)]_vars
  /\ [](Reinvoked =>
          /\ seg_calls = <<>> /\ synth_calls = 0 /\ topic_calls = 0
          /\ AtEntry(task) = entry
          /\ outcome = "returned" =>
                /\ ~result.is_partial
                /\ result = _create_final_result(task))

\* The second invocation on a finished task has returned.
C33_Witness ==
  /\ Reinvoked
  /\ outcome = "returned"
  /\ pc = "idle"
  /\ result.total_segments >= 2

\* The record of the running task as load_task reads it from its file.
Stored == load_task(disk, task.task_id)

\* Positions inside the loop over the remaining segments.
SegmentPcs == {"seg_call", "kw_call", "seg_save", "seg_fail"}

\* The indices whose outcome, completed or failed, is in the file.
Checkpointed ==
  IdxSet(Stored.completed_segments) \cup IdxSet(Stored.failed_segments)

\* C36: the work of one invocation is sequential.  The remaining segments
\* are called in ascending index order, one call per segment; when the call
\* of a segment is made the outcome of every earlier remaining segment is
\* in the file; the synthesis call is made when every segment is completed
\* in the file; the topic call is made when overall_summary is in the file;
\* and the write of overall_completed changes the status only, everything
\* else being in the file before it, and the invocation that wrote it has
\* nothing left to do but return.
C36_Sequential ==
  /\ [][(pc = "finalize" /\ pc' = "final_return")
          => Stored' = [Stored EXCEPT !.status = "overall_completed"]]_vars
  /\ [](pc \notin {"idle", "killed"} =>
          /\ Ascending([k \in 1..Len(seg_calls) |-> seg_calls[k].index])
          /\ pc \in SegmentPcs =>
                /\ Ascending(remaining)
                /\ li \in 1..Len(remaining)
                /\ Len(seg_calls) = IF pc = "seg_call" THEN li - 1 ELSE li
                /\ \A k \in 1..Len(seg_calls) : seg_calls[k].index = remaining[k]
                /\ \A k \in 1..(li - 1) : remaining[k] \in Checkpointed
          /\ (pc \in {"overall", "overall_save", "overall_fail"} \/ synth_calls > 0) =>
                /\ IdxSet(Stored.completed_segments) = 1..Len(segment_by_topic)
                /\ \A k \in 1..Len(seg_calls) : seg_calls[k].index \in Checkpointed
          /\ (pc = "topics_save" \/ topic_calls > 0) =>
                /\ Stored.overall_summary # "None"
                /\ synth_calls <= 1
          /\ (Stored.status = "overall_completed" /\ entry.status # "overall_completed")
                => (pc = "final_return" /\ Stored = task))

\* One invocation has called two segments or more, the synthesis and the
\* topic analysis, and has written overall_completed.
C36_Witness ==
  /\ pc = "final_return"
  /\ Len(seg_calls) >= 2
  /\ synth_calls = 1
  /\ topic_calls = 1
  /\ Stored.status = "overall_completed"

\* A finished task with a transcript of one segment or more.
Finished(t) == t.status = "overall_completed" /\ t.total_segments >= 1

\* C39: every task, in memory or in its file, whose status is
\* overall_completed (total_segments >= 1) has overall_summary set, exactly
\* the indices 1..total_segments completed, each once, and topics set when
\* topic analysis is enabled; and a result that is not partial is returned
\* from a task in that status only.
C39_CompletedIsComplete ==
  /\ \A t \in TaskStates :
        Finished(t) =>
          /\ t.overall_summary # "None"
          /\ IdxSet(t.completed_segments) = 1..t.total_segments
          /\ Len(t.completed_segments) = t.total_segments
          /\ cfg.include_topics => t.topics # "None"
  /\ (outcome = "returned" /\ ~result.is_partial) =>
        /\ task.status = "overall_completed"
        /\ result.status = "overall_completed"
  /\ (outcome = "returned" /\ task.status = "overall_completed") => ~result.is_partial

\* A task of two segments or more, one of them completed by a later
\* invocation than the others, is finished and its result returned.
C39_Witness ==
  /\ outcome = "returned"
  /\ ~result.is_partial
  /\ Finished(task)
  /\ task.total_segments >= 2
  /\ Len(task.failed_segments) >= 1
  /\ cfg.include_topics
  /\ Finished(Stored)

\* ------------------------------------------------ retry by resumption
\* summarize_transcript is called again and again on the task it returned
\* or raised with, with the same text; calls and writes fail now and then.

\* The segment counts of the transcripts that are retried.
LiveSegs == {2}

\* Topic analysis is on and keyword extraction, whose failure
\* _extract_keywords answers with [] (C20), is off.
InitLive ==
  /\ Init
  /\ cfg.nseg \in LiveSegs
  /\ ~cfg.include_keywords
  /\ cfg.include_topics

\* The progress directory accepts writes again.
WriteRecovery ==
  /\ ~fs_ok
  /\ fs_ok' = TRUE
  /\ UNCHANGED <<orch, hist, client, segmenter, now, api, alone>>

NextLive ==
  \/ Invoke("configured")
  \/ SegmentPhase
  \/ \E ok \in BOOLEAN : SummarizeSegment(ok)
  \/ SaveSegment
  \/ FailSegment
  \/ CompletionGate
  \/ \E ok \in BOOLEAN : OverallCall(ok)
  \/ OverallSave
  \/ OverallFail
  \/ \E r \in {"ok", "fail"} : TopicsPhase(r)
  \/ TopicsSave
  \/ Finalize
  \/ ReturnFinal
  \/ ReturnPartial
  \/ UnhandledError
  \/ WriteFailure
  \/ WriteRecovery

\* The caller invokes again whenever the last invocation has ended; the
\* code of an invocation runs on to its end (one thread, no waiting but in
\* the calls); a step that can fail (a segment call, the synthesis call, a
\* step that may raise into the top-level handler) succeeds in the end
\* when it is tried over and over.
FairLive ==
  /\ WF_vars(Invoke("configured"))
  /\ SF_vars(SegmentPhase)
  /\ \A i \in 1..MaxSeg : SF_vars(SummarizeSegment(TRUE) /\ remaining[li] = i)
  /\ WF_vars(SaveSegment)
  /\ WF_vars(FailSegment)
  /\ WF_vars(CompletionGate)
  /\ SF_vars(OverallCall(TRUE))
  /\ WF_vars(OverallSave)
  /\ WF_vars(OverallFail)
  /\ SF_vars(\E r \in {"ok", "fail"} : TopicsPhase(r))
  /\ WF_vars(TopicsSave)
  /\ WF_vars(Finalize)
  /\ SF_vars(ReturnFinal)
  /\ SF_vars(ReturnPartial)

SpecLive == InitLive /\ [][NextLive]_vars /\ FairLive

\* The task is finished, in memory and in its file.
Done ==
  /\ task.status = "overall_completed"
  /\ IdxSet(task.completed_segments) = 1..task.total_segments
  /\ task.total_segments = Len(segment_by_topic)
  /\ task.overall_summary # "None"
  /\ Stored = task

\* C37: when summarize_transcript is invoked again and again on the same
\* task with the same text, and the segment calls, the synthesis call and
\* the writes each fail only finitely often, the task eventually has status
\* overall_completed with every index 1..total_segments completed and
\* overall_summary set, in memory and in its file.
C37_RetryReachesCompletion == (<>[]fs_ok) => <>Done

\* The task is finished after a segment call failed, an invocation raised
\* and a write failed on the way.
C37_Witness ==
  /\ Done
  /\ Len(task.failed_segments) >= 1
  /\ task.error_info # "None"
====
